---- MODULE Spec2Model ----
(***************************************************************************)
(* Model of utility/classifying_tools.py of WCLC: the classifier adapter   *)
(* (load_classifier), the prediction service (get_prediction), the batch   *)
(* evaluator (classify_images_n_icons_from_folder) and the prediction      *)
(* field extractor (extract_item_from_preds).                              *)
(*                                                                         *)
(* Each function is run by its own specification (SpecBatch, SpecPred,     *)
(* SpecLoad, SpecExtract); the variables of the functions that are not     *)
(* running stay at their idle values.  Python's None is the empty tuple,   *)
(* a value v that may be None is carried as <<v>>.                         *)
(***************************************************************************)
EXTENDS Integers, Sequences, FiniteSets, TLC

VARIABLES
    classifier,           \* the classifier configuration (dict) in use
    depth, interpolation, \* arguments of classify_images_n_icons_from_folder
    pc,                   \* position in classify_images_n_icons_from_folder
    dir_list, i, file_name,
    image, resized, resized_predictions,
    icon, resized_icon, icon_predictions,
    results, ret,
    gp_pc,                \* position in get_prediction
    gp_image, gp_top, x, gp_preds, gp_ret,
    calls,                \* every call made to a collaborator, in order
    fault,                \* the step that failed, once one has
    lc_pc,                \* position in load_classifier
    model_class, shape, weights, module, lc_entries, lc_exc, lc_ret, log,
    ex_pc,                \* position in extract_item_from_preds
    preds, idx, ex_ret

batchVars == <<depth, interpolation, pc, dir_list, i, file_name, image, resized,
               resized_predictions, icon, resized_icon, icon_predictions,
               results, ret>>
gpVars == <<gp_pc, gp_image, gp_top, x, gp_preds, gp_ret>>
lcVars == <<lc_pc, model_class, shape, weights, module, lc_entries, lc_exc, lc_ret, log>>
exVars == <<ex_pc, preds, idx, ex_ret>>

----------------------------------------------------------------------------
(* Bounds of the model *)

MaxFiles == 2          \* longest directory listing
MaxTop == 3            \* largest top requested, longest prediction list
MaxPreds == 2          \* longest list handed to extract_item_from_preds

(* Program constants *)

INTER_AREA == 3        \* cv2.INTER_AREA, the default interpolation
INTER_LINEAR == 1      \* cv2.INTER_LINEAR, another mode a caller may pass
DefaultTop == 5        \* get_prediction's default top
DefaultDepth == 1      \* the batch evaluator's default depth

None == <<>>
Some(v) == <<v>>

Min(a, b) == IF a < b THEN a ELSE b
RECURSIVE Pow2(_)
Pow2(n) == IF n = 0 THEN 1 ELSE 2 * Pow2(n - 1)
RangeOf(s) == {s[k] : k \in 1..Len(s)}

----------------------------------------------------------------------------
(* Values *)

folder == "imgs"
FileNames == {"a.jpg", "b.png", "c.bmp"}

\* Directory listings: os.listdir yields every entry once, in OS order.
DirLists ==
    {l \in UNION {[1..n -> FileNames] : n \in 0..MaxFiles} :
        \A a, b \in 1..Len(l) : a # b => l[a] # l[b]}

\* (rows, cols) of the image each file decodes to.
ImageDims(name) ==
    IF name = "a.jpg" THEN <<4, 4>> ELSE IF name = "b.png" THEN <<2, 6>> ELSE <<5, 3>>

\* (height, width) input shapes of a classifier configuration.
Shapes == {<<1, 1>>, <<1, 2>>, <<2, 1>>, <<2, 2>>}

\* Prediction tuples (class id, label, confidence in percent).
T1 == <<"n1", "cat", 90>>
T2 == <<"n2", "dog", 5>>
T3 == <<"n3", "car", 80>>
Tuples == {T1, T2, T3}

\* What the decoding function may rank, best first by its own account; the
\* second is not in descending confidence.
Rankings == {<<T1, T3, T2>>, <<T2, T1, T3>>}

Path(dir, name) == <<dir, name>>

\* load_image(path): an array of some size decoded from the file.
LoadImage(path, dims) ==
    [src |-> path, rows |-> dims[1], cols |-> dims[2], ops |-> <<>>]

\* cv2.resize(src, dsize, interpolation): dsize is (width, height); the result
\* has dsize[1] rows and dsize[0] columns (Python indices).
Resize(img, dsize, interp) ==
    [src |-> img.src, rows |-> dsize[2], cols |-> dsize[1],
     ops |-> Append(img.ops, "resize")]

\* coder.get_small_copy(image, depth): the image with depth levels discarded.
GetSmallCopy(img, d) ==
    [src |-> img.src,
     rows |-> (img.rows + Pow2(d) - 1) \div Pow2(d),
     cols |-> (img.cols + Pow2(d) - 1) \div Pow2(d),
     ops |-> Append(img.ops, "get_small_copy")]

\* np.expand_dims(image, axis=0): a batch holding the one image.
ExpandDims(img) == <<img>>

\* The classifier's functions are opaque: their results are terms.
PreprocessInput(batch) == [f |-> "preprocess_input", of |-> batch]
ModelPredict(batch) == [f |-> "predict", of |-> batch]

\* decode_predictions(preds, top): one prediction list for the one image of
\* the batch, at most top long, in the order the decoder chose.
DecodePredictions(ranking, top) ==
    <<SubSeq(ranking, 1, Min(top, Len(ranking)))>>

\* A call to a collaborator: out is <<result>>, or None when the call raised.
Call(fn, args, out) == [fn |-> fn, args |-> args, out |-> out]

Configs ==
    {[MODEL |-> "model", PRE_INP |-> "preprocess_input",
      DEC_PRED |-> "decode_predictions", SHAPE |-> s] : s \in Shapes}

\* Values of names that are not bound yet.
NoImage == [src |-> <<"", "">>, rows |-> 0, cols |-> 0, ops |-> <<>>]
NoBatch == <<>>
NoPreds == <<>>
NoRaw == [f |-> "", of |-> <<>>]

Depths == {DefaultDepth, DefaultDepth + 1}
Interpolations == {INTER_AREA, INTER_LINEAR}

----------------------------------------------------------------------------
(* Failure: a collaborator raises; nothing in get_prediction or in the      *)
(* batch evaluator catches, so the exception unwinds to the caller.         *)

Fails(step) == fault' = Some([k |-> i, step |-> step])

\* get_prediction has no try: its frame ends with the exception.
GpPropagate == gp_pc' = "raised" /\ gp_ret' = None

\* Mutant: a per-file catch-and-skip, the loop goes on with the next file.
CatchAndSkip == pc' = "L93" /\ ret' = ret

\* classify_images_n_icons_from_folder has no try: the call ends with the
\* exception and returns nothing.
Propagate == pc' = "raised" /\ ret' = None

----------------------------------------------------------------------------
(* get_prediction(image, classifier, top) *)

GpExpandDims ==
    /\ gp_pc = "L58"
    /\ x' = ExpandDims(gp_image)
    /\ calls' = Append(calls, Call("expand_dims", <<gp_image>>, Some(x')))
    /\ gp_pc' = "L63"
    /\ UNCHANGED <<lcVars, exVars, classifier, batchVars, gp_image, gp_top, gp_preds, gp_ret, fault>>

GpPreprocess ==
    /\ gp_pc = "L63"
    /\ \/ /\ x' = PreprocessInput(x)
          /\ calls' = Append(calls, Call(classifier.PRE_INP, <<x>>, Some(x')))
          /\ gp_pc' = "L64"
          /\ UNCHANGED <<gp_ret, fault>>
       \/ /\ calls' = Append(calls, Call(classifier.PRE_INP, <<x>>, None))
          /\ Fails("preprocess_input")
          /\ GpPropagate
          /\ UNCHANGED x
    /\ UNCHANGED <<lcVars, exVars, classifier, batchVars, gp_image, gp_top, gp_preds>>

GpPredict ==
    /\ gp_pc = "L64"
    /\ \/ /\ gp_preds' = ModelPredict(x)
          /\ calls' = Append(calls, Call("predict", <<classifier.MODEL, x>>, Some(gp_preds')))
          /\ gp_pc' = "L66"
          /\ UNCHANGED <<gp_ret, fault>>
       \/ /\ calls' = Append(calls, Call("predict", <<classifier.MODEL, x>>, None))
          /\ Fails("predict")
          /\ GpPropagate
          /\ UNCHANGED gp_preds
    /\ UNCHANGED <<lcVars, exVars, classifier, batchVars, gp_image, gp_top, x>>

\* Mutant: the decoded list is sorted again by descending confidence.
RECURSIVE InsertByScore(_, _)
InsertByScore(t, sorted) ==
    IF sorted = <<>> THEN <<t>>
    ELSE IF t[3] > Head(sorted)[3] THEN <<t>> \o sorted
    ELSE <<Head(sorted)>> \o InsertByScore(t, Tail(sorted))
RECURSIVE SortByScore(_)
SortByScore(l) == IF l = <<>> THEN <<>> ELSE InsertByScore(Head(l), SortByScore(Tail(l)))
GpDecodeResorted ==
    /\ gp_pc = "L66"
    /\ \E r \in Rankings :
          /\ calls' = Append(calls, Call(classifier.DEC_PRED, <<gp_preds, gp_top>>,
                                         Some(DecodePredictions(r, gp_top))))
          /\ gp_ret' = Some(<<SortByScore(DecodePredictions(r, gp_top)[1])>>)
          /\ gp_pc' = "returned"
          /\ UNCHANGED fault
    /\ UNCHANGED <<lcVars, exVars, classifier, batchVars, gp_image, gp_top, x, gp_preds>>

GpDecode ==
    /\ gp_pc = "L66"
    /\ \/ \E r \in Rankings :
            /\ calls' = Append(calls, Call(classifier.DEC_PRED, <<gp_preds, gp_top>>,
                                           Some(DecodePredictions(r, gp_top))))
            /\ gp_ret' = Some(DecodePredictions(r, gp_top))
            /\ gp_pc' = "returned"
            /\ UNCHANGED fault
       \/ /\ calls' = Append(calls, Call(classifier.DEC_PRED, <<gp_preds, gp_top>>, None))
          /\ Fails("decode_predictions")
          /\ GpPropagate
    /\ UNCHANGED <<lcVars, exVars, classifier, batchVars, gp_image, gp_top, x, gp_preds>>

----------------------------------------------------------------------------
(* classify_images_n_icons_from_folder(classifier, folder, coder, depth,    *)
(* interpolation)                                                           *)

loopVars == <<image, resized, resized_predictions, icon, resized_icon,
              icon_predictions>>

\* results[file_name] = value on a dict held as a set of (key, value) entries.
DictSet(d, key, value) ==
    {e \in d : e.key # key} \cup {[key |-> key, value |-> value]}
Keys(d) == {e.key : e \in d}

\* Lines 89-91: dir_list = os.listdir(folder); results = dict()
ListDir ==
    /\ pc = "L89"
    /\ \/ \E l \in DirLists :
            /\ dir_list' = l
            /\ calls' = Append(calls, Call("listdir", <<folder>>, Some(l)))
            /\ results' = {}
            /\ pc' = "L93"
            /\ UNCHANGED <<ret, fault>>
       \/ /\ calls' = Append(calls, Call("listdir", <<folder>>, None))
          /\ Fails("listdir")
          /\ Propagate
          /\ UNCHANGED <<dir_list, results>>
    /\ UNCHANGED <<lcVars, exVars, classifier, depth, interpolation, i, file_name, loopVars, gpVars>>

\* Mutant: the loop stops one entry short of the listing.
ForNextOneShort ==
    /\ pc = "L93"
    /\ IF i < Len(dir_list) - 1
       THEN i' = i + 1 /\ file_name' = dir_list[i + 1] /\ pc' = "L94"
       ELSE pc' = "L107" /\ UNCHANGED <<i, file_name>>
    /\ UNCHANGED <<lcVars, exVars, classifier, depth, interpolation, dir_list, loopVars, results,
                   ret, gpVars, calls, fault>>

\* Line 93: for file_name in dir_list
ForNext ==
    /\ pc = "L93"
    /\ IF i < Len(dir_list)
       THEN i' = i + 1 /\ file_name' = dir_list[i + 1] /\ pc' = "L94"
       ELSE pc' = "L107" /\ UNCHANGED <<i, file_name>>
    /\ UNCHANGED <<lcVars, exVars, classifier, depth, interpolation, dir_list, loopVars, results,
                   ret, gpVars, calls, fault>>

\* Line 94: image = load_image(f'{folder}/{file_name}')
Load ==
    /\ pc = "L94"
    /\ \/ /\ image' = LoadImage(Path(folder, file_name), ImageDims(file_name))
          /\ calls' = Append(calls, Call("load_image", <<Path(folder, file_name)>>,
                                         Some(image')))
          /\ pc' = "L96"
          /\ UNCHANGED <<ret, fault>>
       \/ /\ calls' = Append(calls, Call("load_image", <<Path(folder, file_name)>>, None))
          /\ Fails("load_image")
          /\ Propagate
          /\ UNCHANGED image
    /\ UNCHANGED <<lcVars, exVars, classifier, depth, interpolation, dir_list, i, file_name, resized,
                   resized_predictions, icon, resized_icon, icon_predictions,
                   results, gpVars>>

\* Line 96: resized = cv2.resize(image, classifier[SHAPE], interpolation=interpolation)
ResizeSource ==
    /\ pc = "L96"
    /\ \/ /\ resized' = Resize(image, classifier.SHAPE, interpolation)
          /\ calls' = Append(calls, Call("resize", <<image, classifier.SHAPE, interpolation>>,
                                         Some(resized')))
          /\ pc' = "L98"
          /\ UNCHANGED <<ret, fault>>
       \/ /\ calls' = Append(calls, Call("resize", <<image, classifier.SHAPE, interpolation>>,
                                         None))
          /\ Fails("resize")
          /\ Propagate
          /\ UNCHANGED resized
    /\ UNCHANGED <<lcVars, exVars, classifier, depth, interpolation, dir_list, i, file_name, image,
                   resized_predictions, icon, resized_icon, icon_predictions,
                   results, gpVars>>

\* The call of get_prediction(img, classifier): top takes its default.
EnterGetPrediction(img) ==
    /\ gp_pc' = "L58"
    /\ gp_image' = img
    /\ gp_top' = DefaultTop
    /\ x' = NoBatch
    /\ gp_preds' = NoRaw
    /\ gp_ret' = None
    /\ calls' = Append(calls, Call("get_prediction", <<img, classifier>>, None))

\* Line 98: resized_predictions = get_prediction(resized, classifier), the call
PredictSource ==
    /\ pc = "L98"
    /\ EnterGetPrediction(resized)
    /\ pc' = "L98r"
    /\ UNCHANGED <<lcVars, exVars, classifier, depth, interpolation, dir_list, i, file_name, loopVars,
                   results, ret, fault>>

\* Line 98, the return
PredictSourceReturn ==
    /\ pc = "L98r"
    /\ gp_pc = "returned"
    /\ resized_predictions' = gp_ret[1]
    /\ gp_pc' = "idle"
    /\ pc' = "L100"
    /\ UNCHANGED <<lcVars, exVars, classifier, depth, interpolation, dir_list, i, file_name, image,
                   resized, icon, resized_icon, icon_predictions, results, ret,
                   gp_image, gp_top, x, gp_preds, gp_ret, calls, fault>>

\* Mutant: the icon is derived from the resized image, not from the loaded one.
SmallCopyOfResized ==
    /\ pc = "L100"
    /\ icon' = GetSmallCopy(resized, depth)
    /\ calls' = Append(calls, Call("get_small_copy", <<resized, depth>>, Some(icon')))
    /\ pc' = "L101"
    /\ UNCHANGED <<lcVars, exVars, classifier, depth, interpolation, dir_list, i, file_name, image,
                   resized, resized_predictions, resized_icon, icon_predictions,
                   results, ret, gpVars, fault>>

\* Line 100: icon = coder.get_small_copy(image, depth)
SmallCopy ==
    /\ pc = "L100"
    /\ \/ /\ icon' = GetSmallCopy(image, depth)
          /\ calls' = Append(calls, Call("get_small_copy", <<image, depth>>, Some(icon')))
          /\ pc' = "L101"
          /\ UNCHANGED <<ret, fault>>
       \/ /\ calls' = Append(calls, Call("get_small_copy", <<image, depth>>, None))
          /\ Fails("get_small_copy")
          /\ Propagate
          /\ UNCHANGED icon
    /\ UNCHANGED <<lcVars, exVars, classifier, depth, interpolation, dir_list, i, file_name, image,
                   resized, resized_predictions, resized_icon, icon_predictions,
                   results, gpVars>>

\* Line 101: resized_icon = cv2.resize(icon, classifier[SHAPE], interpolation=interpolation)
ResizeIcon ==
    /\ pc = "L101"
    /\ \/ /\ resized_icon' = Resize(icon, classifier.SHAPE, interpolation)
          /\ calls' = Append(calls, Call("resize", <<icon, classifier.SHAPE, interpolation>>,
                                         Some(resized_icon')))
          /\ pc' = "L103"
          /\ UNCHANGED <<ret, fault>>
       \/ /\ calls' = Append(calls, Call("resize", <<icon, classifier.SHAPE, interpolation>>,
                                         None))
          /\ Fails("resize")
          /\ Propagate
          /\ UNCHANGED resized_icon
    /\ UNCHANGED <<lcVars, exVars, classifier, depth, interpolation, dir_list, i, file_name, image,
                   resized, resized_predictions, icon, icon_predictions,
                   results, gpVars>>

\* Line 103: icon_predictions = get_prediction(resized_icon, classifier), the call
PredictIcon ==
    /\ pc = "L103"
    /\ EnterGetPrediction(resized_icon)
    /\ pc' = "L103r"
    /\ UNCHANGED <<lcVars, exVars, classifier, depth, interpolation, dir_list, i, file_name, loopVars,
                   results, ret, fault>>

\* Line 103, the return
PredictIconReturn ==
    /\ pc = "L103r"
    /\ gp_pc = "returned"
    /\ icon_predictions' = gp_ret[1]
    /\ gp_pc' = "idle"
    /\ pc' = "L105"
    /\ UNCHANGED <<lcVars, exVars, classifier, depth, interpolation, dir_list, i, file_name, image,
                   resized, resized_predictions, icon, resized_icon, results, ret,
                   gp_image, gp_top, x, gp_preds, gp_ret, calls, fault>>

\* Lines 98 and 103 when get_prediction raised: the exception goes on up.
PredictionRaised ==
    /\ pc \in {"L98r", "L103r"}
    /\ gp_pc = "raised"
    /\ gp_pc' = "idle"
    /\ Propagate
    /\ UNCHANGED <<lcVars, exVars, classifier, depth, interpolation, dir_list, i, file_name, loopVars,
                   results, gp_image, gp_top, x, gp_preds, gp_ret, calls, fault>>

\* Line 105: results[file_name] = {SOURCE: resized_predictions, ICON: icon_predictions}
Store ==
    /\ pc = "L105"
    /\ results' = DictSet(results, file_name,
                          [SOURCE |-> resized_predictions, ICON |-> icon_predictions])
    /\ pc' = "L93"
    /\ UNCHANGED <<lcVars, exVars, classifier, depth, interpolation, dir_list, i, file_name, loopVars,
                   ret, gpVars, calls, fault>>

\* Line 107: return results
Return ==
    /\ pc = "L107"
    /\ ret' = Some(results)
    /\ pc' = "returned"
    /\ UNCHANGED <<lcVars, exVars, classifier, depth, interpolation, dir_list, i, file_name, loopVars,
                   results, gpVars, calls, fault>>

\* Values of load_classifier's and extract_item_from_preds' names while they
\* are not running.
NoClassifier == [MODEL |-> "", PRE_INP |-> "", DEC_PRED |-> "", SHAPE |-> <<0, 0>>]
NoFactory ==
    [name |-> "", has_module |-> FALSE, module |-> "", in_sys_modules |-> FALSE,
     attrs |-> {}, raises |-> None]

LcIdle ==
    /\ lc_pc = "idle" /\ model_class = NoFactory /\ shape = <<0, 0>> /\ weights = ""
    /\ module = "" /\ lc_entries = <<>> /\ lc_exc = None /\ lc_ret = None /\ log = <<>>

ExIdle == ex_pc = "idle" /\ preds = <<>> /\ idx = 0 /\ ex_ret = None

GpIdle ==
    /\ gp_pc = "idle" /\ gp_image = NoImage /\ gp_top = DefaultTop
    /\ x = NoBatch /\ gp_preds = NoRaw /\ gp_ret = None

BatchIdle ==
    /\ pc = "idle" /\ depth = DefaultDepth /\ interpolation = INTER_AREA
    /\ dir_list = <<>> /\ i = 0 /\ file_name = ""
    /\ image = NoImage /\ resized = NoImage /\ resized_predictions = NoPreds
    /\ icon = NoImage /\ resized_icon = NoImage /\ icon_predictions = NoPreds
    /\ results = {} /\ ret = None

InitBatch ==
    /\ classifier \in Configs
    /\ depth \in Depths
    /\ interpolation \in Interpolations
    /\ pc = "L89"
    /\ dir_list = <<>> /\ i = 0 /\ file_name = ""
    /\ image = NoImage /\ resized = NoImage /\ resized_predictions = NoPreds
    /\ icon = NoImage /\ resized_icon = NoImage /\ icon_predictions = NoPreds
    /\ results = {} /\ ret = None
    /\ GpIdle
    /\ LcIdle
    /\ ExIdle
    /\ calls = <<>>
    /\ fault = None

NextBatch ==
    \/ ListDir \/ ForNext \/ Load \/ ResizeSource \/ PredictSource
    \/ PredictSourceReturn \/ SmallCopy \/ ResizeIcon \/ PredictIcon
    \/ PredictIconReturn \/ PredictionRaised \/ Store \/ Return
    \/ GpExpandDims \/ GpPreprocess \/ GpPredict \/ GpDecode

vars == <<classifier, batchVars, gpVars, calls, fault, lcVars, exVars>>

SpecBatch == InitBatch /\ [][NextBatch]_vars

\* get_prediction called on its own.
TestImages == {LoadImage(Path(folder, f), ImageDims(f)) : f \in FileNames}

InitPred ==
    /\ classifier \in Configs
    /\ BatchIdle
    /\ gp_pc = "L58"
    /\ gp_image \in TestImages
    /\ gp_top \in 1..MaxTop
    /\ x = NoBatch /\ gp_preds = NoRaw /\ gp_ret = None
    /\ LcIdle
    /\ ExIdle
    /\ calls = <<>>
    /\ fault = None

NextPred == GpExpandDims \/ GpPreprocess \/ GpPredict \/ GpDecode

SpecPred == InitPred /\ [][NextPred]_vars

----------------------------------------------------------------------------
(* load_classifier(model_class, shape, weights)                             *)
(*                                                                          *)
(* model_class describes the factory and what the interpreter holds for it: *)
(* whether it has a __module__, whether that module is in sys.modules,      *)
(* which companion functions the module has, and what the factory raises.    *)

Weights == {"imagenet", "nosuch"}
Companions == {"preprocess_input", "decode_predictions"}
\* What a failing construction raises: a bad weights argument, a failed fetch.
FactoryErrors == {"ValueError", "OSError"}

Factories ==
    {[name |-> "VGG16", has_module |-> h, module |-> "keras.applications.vgg16",
      in_sys_modules |-> m, attrs |-> a, raises |-> r] :
        h \in BOOLEAN, m \in BOOLEAN, a \in SUBSET Companions,
        r \in {None} \cup {Some(e) : e \in FactoryErrors}}

\* Mutant: only the lookup errors are caught.
CaughtLookupOnly(kind) == kind \in {"KeyError", "AttributeError"}

\* Line 38, except Exception: the classes that derive from Exception.
Caught(kind) == kind \in {"KeyError", "AttributeError", "ValueError", "OSError"}

\* An exception raised inside the try block of lines 28-37.
Throw(kind) == lc_exc' = Some(kind) /\ lc_pc' = "L38"

\* Line 30: module = sys.modules[model_class.__module__]
LcModule ==
    /\ lc_pc = "L30"
    /\ IF ~model_class.has_module
       THEN Throw("AttributeError") /\ UNCHANGED module
       ELSE IF ~model_class.in_sys_modules
       THEN Throw("KeyError") /\ UNCHANGED module
       ELSE module' = model_class.module /\ lc_pc' = "L33" /\ UNCHANGED lc_exc
    /\ UNCHANGED <<classifier, batchVars, gpVars, calls, fault, exVars,
                   model_class, shape, weights, lc_entries, lc_ret, log>>

\* Line 33: MODEL: model_class(weights=weights)
LcModel ==
    /\ lc_pc = "L33"
    /\ IF model_class.raises # None
       THEN Throw(model_class.raises[1]) /\ UNCHANGED lc_entries
       ELSE /\ lc_entries' = Append(lc_entries,
                                    [factory |-> model_class.name, weights |-> weights])
            /\ lc_pc' = "L34"
            /\ UNCHANGED lc_exc
    /\ UNCHANGED <<classifier, batchVars, gpVars, calls, fault, exVars,
                   model_class, shape, weights, module, lc_ret, log>>

\* getattr(module, name)
GetAttr(name, next) ==
    IF name \notin model_class.attrs
    THEN Throw("AttributeError") /\ UNCHANGED lc_entries
    ELSE /\ lc_entries' = Append(lc_entries, [module |-> module, attr |-> name])
         /\ lc_pc' = next
         /\ UNCHANGED lc_exc

\* Line 34: PRE_INP: getattr(module, 'preprocess_input')
LcPreprocess ==
    /\ lc_pc = "L34"
    /\ GetAttr("preprocess_input", "L35")
    /\ UNCHANGED <<classifier, batchVars, gpVars, calls, fault, exVars,
                   model_class, shape, weights, module, lc_ret, log>>

\* Line 35: DEC_PRED: getattr(module, 'decode_predictions')
LcDecode ==
    /\ lc_pc = "L35"
    /\ GetAttr("decode_predictions", "L36")
    /\ UNCHANGED <<classifier, batchVars, gpVars, calls, fault, exVars,
                   model_class, shape, weights, module, lc_ret, log>>

\* Lines 32-37: SHAPE: shape, and the dict is returned
LcReturn ==
    /\ lc_pc = "L36"
    /\ lc_ret' = Some([MODEL |-> lc_entries[1], PRE_INP |-> lc_entries[2],
                       DEC_PRED |-> lc_entries[3], SHAPE |-> shape])
    /\ lc_pc' = "returned"
    /\ UNCHANGED <<classifier, batchVars, gpVars, calls, fault, exVars,
                   model_class, shape, weights, module, lc_entries, lc_exc, log>>

\* Lines 38-40: except Exception as e: logging.error(...); return None
LcExcept ==
    /\ lc_pc = "L38"
    /\ IF Caught(lc_exc[1])
       THEN /\ log' = Append(log, <<"Error loading: ", lc_exc[1]>>)
            /\ lc_ret' = None
            /\ lc_pc' = "returned"
            /\ lc_exc' = None
       ELSE lc_pc' = "raised" /\ UNCHANGED <<log, lc_ret, lc_exc>>
    /\ UNCHANGED <<classifier, batchVars, gpVars, calls, fault, exVars,
                   model_class, shape, weights, module, lc_entries>>

InitLoad ==
    /\ classifier = NoClassifier
    /\ BatchIdle
    /\ GpIdle
    /\ ExIdle
    /\ calls = <<>>
    /\ fault = None
    /\ lc_pc = "L30"
    /\ model_class \in Factories
    /\ shape \in Shapes
    /\ weights \in Weights
    /\ module = "" /\ lc_entries = <<>> /\ lc_exc = None /\ lc_ret = None /\ log = <<>>

NextLoad == LcModule \/ LcModel \/ LcPreprocess \/ LcDecode \/ LcReturn \/ LcExcept

SpecLoad == InitLoad /\ [][NextLoad]_vars

----------------------------------------------------------------------------
(* extract_item_from_preds(preds, idx) *)

\* Prediction lists: ranked tuples of distinct classes, at most MaxTop long.
PredictionLists ==
    {l \in UNION {[1..n -> Tuples] : n \in 0..MaxTop} :
        \A a, b \in 1..Len(l) : a # b => l[a] # l[b]}

PredsInputs == UNION {[1..n -> PredictionLists] : n \in 0..MaxPreds}

IdxValues == {-4, -1, 0, 1, 2, 3, 100}

\* Mutant: the index is taken as a position counted from one.
PyIndexFromOne(seq, k) ==
    IF 1 <= k /\ k <= Len(seq) THEN Some(seq[k])
    ELSE IF -Len(seq) <= k /\ k < 0 THEN Some(seq[Len(seq) + k + 1])
    ELSE None

\* Python's seq[k]: positions count from 0, negative k counts from the end,
\* anything else is an IndexError (None here).
PyIndex(seq, k) ==
    IF 0 <= k /\ k < Len(seq) THEN Some(seq[k + 1])
    ELSE IF -Len(seq) <= k /\ k < 0 THEN Some(seq[Len(seq) + k + 1])
    ELSE None

\* Mutant: a list too short for idx is skipped instead of raising.
RECURSIVE ExtractLoopSkipping(_, _, _)
ExtractLoopSkipping(rest, k, items) ==
    IF rest = <<>> THEN [raised |-> FALSE, items |-> items]
    ELSE IF PyIndex(Head(rest), k) = None
         THEN ExtractLoopSkipping(Tail(rest), k, items)
         ELSE ExtractLoopSkipping(Tail(rest), k, Append(items, PyIndex(Head(rest), k)[1]))

\* Lines 126-127: for pred in preds: items.append(pred[idx])
RECURSIVE ExtractLoop(_, _, _)
ExtractLoop(rest, k, items) ==
    IF rest = <<>> THEN [raised |-> FALSE, items |-> items]
    ELSE IF PyIndex(Head(rest), k) = None
         THEN [raised |-> TRUE, items |-> items]
         ELSE ExtractLoop(Tail(rest), k, Append(items, PyIndex(Head(rest), k)[1]))

\* Mutant: the guard refuses idx = 2 as well.
ExtractItemFromPredsGuardOff(p, k) ==
    IF k >= 2 THEN [status |-> "returned", value |-> None]
    ELSE LET r == ExtractLoop(p, k, <<>>)
         IN  IF r.raised THEN [status |-> "raised", value |-> None]
             ELSE [status |-> "returned", value |-> Some(r.items)]

\* Lines 122-129: the result of the call, or the IndexError it ends with.
ExtractItemFromPreds(p, k) ==
    IF k > 2 THEN [status |-> "returned", value |-> None]
    ELSE LET r == ExtractLoop(p, k, <<>>)
         IN  IF r.raised THEN [status |-> "raised", value |-> None]
             ELSE [status |-> "returned", value |-> Some(r.items)]

Extract ==
    /\ ex_pc = "L122"
    /\ ex_pc' = ExtractItemFromPreds(preds, idx).status
    /\ ex_ret' = ExtractItemFromPreds(preds, idx).value
    /\ UNCHANGED <<classifier, batchVars, gpVars, calls, fault, lcVars, preds, idx>>

InitExtract ==
    /\ classifier = NoClassifier
    /\ BatchIdle
    /\ GpIdle
    /\ LcIdle
    /\ calls = <<>>
    /\ fault = None
    /\ ex_pc = "L122"
    /\ preds \in PredsInputs
    /\ idx \in IdxValues
    /\ ex_ret = None

NextExtract == Extract

SpecExtract == InitExtract /\ [][NextExtract]_vars

----------------------------------------------------------------------------
(* Claims about classify_images_n_icons_from_folder (SpecBatch) *)

CallsOf(fn) == {n \in DOMAIN calls : calls[n].fn = fn}
\* The calls of fn whose first argument is, or was made from, file f.
LoadsOf(f) == {n \in CallsOf("load_image") : calls[n].args[1] = Path(folder, f)}
CallsOn(fn, f) == {n \in CallsOf(fn) : calls[n].args[1].src = Path(folder, f)}

\* C1: when no step fails, a run over a listing of N entries returns a mapping
\* with exactly N keys, the key set is the set of listed names, and every
\* listed file is loaded and processed exactly once.
C1_Completeness ==
    pc = "returned" =>
        /\ ret # None
        /\ Cardinality(ret[1]) = Len(dir_list)
        /\ Cardinality(Keys(ret[1])) = Len(dir_list)
        /\ Keys(ret[1]) = RangeOf(dir_list)
        /\ Cardinality(CallsOf("load_image")) = Len(dir_list)
        /\ \A f \in RangeOf(dir_list) :
              /\ Cardinality(LoadsOf(f)) = 1
              /\ Cardinality(CallsOn("get_small_copy", f)) = 1
              /\ Cardinality(CallsOn("get_prediction", f)) = 2

C1_Witness ==
    pc = "returned" /\ fault = None /\ Len(dir_list) >= 2

\* C2: both arrays handed to get_prediction have exactly height rows and width
\* columns of the configuration's shape (height, width), square or not.
C2_ShapeInvariant ==
    \A n \in CallsOf("get_prediction") :
        /\ calls[n].args[1].rows = classifier.SHAPE[1]
        /\ calls[n].args[1].cols = classifier.SHAPE[2]

\* C3: per file, get_small_copy is called exactly once, with the loaded (not
\* resized) image and the given depth; the icon predictions come from that
\* output resized, the source predictions from the loaded image resized; both
\* resizes use the same interpolation and both predictions the same configuration.
C3_IconFromOriginal ==
    /\ \A n \in CallsOf("get_small_copy") :
          /\ calls[n].args[1].ops = <<>>
          /\ calls[n].args[2] = depth
          /\ \E m \in CallsOf("load_image") : m < n /\ calls[m].out = Some(calls[n].args[1])
    /\ \A n \in CallsOf("resize") : calls[n].args[3] = interpolation
    /\ \A n \in CallsOf("get_prediction") : calls[n].args[2] = classifier
    /\ \A f \in Keys(results) : Cardinality(CallsOn("get_small_copy", f)) = 1
    /\ pc = "L100" =>
          /\ resized = Resize(image, classifier.SHAPE, interpolation)
          /\ gp_image = resized
          /\ resized_predictions = gp_ret[1]
    /\ pc = "L105" =>
          /\ image.ops = <<>>
          /\ icon = GetSmallCopy(image, depth)
          /\ resized_icon = Resize(icon, classifier.SHAPE, interpolation)
          /\ gp_image = resized_icon
          /\ icon_predictions = gp_ret[1]
          /\ Cardinality(CallsOn("get_small_copy", file_name)) = 1

C3_Witness ==
    pc = "L105" /\ i = 2 /\ interpolation = INTER_LINEAR /\ depth = DefaultDepth + 1

\* C4: a failure at the k-th file propagates to the caller: no mapping is
\* returned (the earlier entries are lost), no entry is stored for file k and
\* no file after k is loaded or processed.
C4_FailurePropagates ==
    fault # None =>
        /\ pc = "raised" \/ (pc \in {"L98r", "L103r"} /\ gp_pc = "raised")
        /\ ret = None
        /\ i = fault[1].k
        /\ i >= 1 => dir_list[i] \notin Keys(results)
        /\ Cardinality(CallsOf("load_image")) = i
        /\ \A n \in CallsOf("load_image") :
              \E j \in 1..i : calls[n].args[1] = Path(folder, dir_list[j])
        /\ calls[Len(calls)].out = None

C4_Witness ==
    pc = "raised" /\ fault # None /\ i = 2 /\ Cardinality(results) = 1

----------------------------------------------------------------------------
(* Claims about load_classifier (SpecLoad) *)

\* Whether construction or a lookup fails for this factory.
LoadFails ==
    \/ ~model_class.has_module
    \/ ~model_class.in_sys_modules
    \/ model_class.raises # None
    \/ model_class.attrs # Companions

\* C5: load_classifier never raises past its boundary; when construction or a
\* lookup fails it logs and returns None; it returns either a configuration
\* with all four fields or None, never a partial one.
C5_FailureContained ==
    /\ lc_pc # "raised"
    /\ lc_pc = "returned" =>
          IF LoadFails
          THEN lc_ret = None /\ Len(log) = 1
          ELSE /\ lc_ret # None
               /\ DOMAIN lc_ret[1] = {"MODEL", "PRE_INP", "DEC_PRED", "SHAPE"}
               /\ lc_ret[1].MODEL = [factory |-> model_class.name, weights |-> weights]
               /\ lc_ret[1].PRE_INP = [module |-> model_class.module, attr |-> "preprocess_input"]
               /\ lc_ret[1].DEC_PRED = [module |-> model_class.module, attr |-> "decode_predictions"]
               /\ lc_ret[1].SHAPE = shape
               /\ log = <<>>

C5_Witness ==
    /\ lc_pc = "returned" /\ lc_ret = None
    /\ model_class.has_module /\ model_class.in_sys_modules
    /\ model_class.raises = Some("OSError")

----------------------------------------------------------------------------
(* Claims about extract_item_from_preds (SpecExtract) *)

ExtractDone == ex_pc \in {"returned", "raised"}
AllLongerThan(k) == \A n \in 1..Len(preds) : Len(preds[n]) > k

\* The scenario's input: [[("n1","cat",0.9), ("n2","dog",0.05)], [("n3","car",0.8)]]
ScenarioPreds == <<<<T1, T2>>, <<T3>>>>

\* Two values are the same Python value (a label is a string, an item a tuple).
SameValue(a, b) == ToString(a) = ToString(b)

\* C6: for every idx outside {0, 1, 2}, negative ones included, and any preds
\* the call returns None, extracts nothing and raises nothing.
C6_InvalidIdxGivesNone ==
    (ExtractDone /\ idx \notin {0, 1, 2}) => (ex_pc = "returned" /\ ex_ret = None)

\* C7 as stated: for idx in {0, 1, 2} and lists of any lengths the call returns
\* len(preds) extracted elements and does not fail.
C7_LengthAnyLists ==
    (ExtractDone /\ idx \in {0, 1, 2}) =>
        (ex_pc = "returned" /\ ex_ret # None /\ Len(ex_ret[1]) = Len(preds))

\* C7 amended: for idx in {0, 1, 2} the call returns len(preds) extracted
\* elements when every list has more than idx elements, and ends with an
\* IndexError when some list has not.
C7_LengthWhenLongEnough ==
    (ExtractDone /\ idx \in {0, 1, 2}) =>
        IF AllLongerThan(idx)
        THEN ex_pc = "returned" /\ ex_ret # None /\ Len(ex_ret[1]) = Len(preds)
        ELSE ex_pc = "raised"

C7_Witness ==
    ExtractDone /\ idx = 2 /\ Len(preds) = 2 /\ AllLongerThan(2) /\ ex_pc = "returned"

\* C8 as stated: with idx = 1 the call returns, for each prediction list, the
\* label field of its first-ranked tuple (["cat", "car"] in the scenario).
C8_LabelOfFirstTuple ==
    (ExtractDone /\ idx = 1 /\ AllLongerThan(0)) =>
        /\ ex_pc = "returned"
        /\ ex_ret # None
        /\ Len(ex_ret[1]) = Len(preds)
        /\ \A n \in 1..Len(preds) : SameValue(ex_ret[1][n], preds[n][1][2])

\* C8 amended: with idx = 1 the call returns, for each prediction list, its
\* second-ranked tuple when every list has at least two; in the scenario the
\* second list has one tuple and the call ends with an IndexError.
C8_SecondRankedTuple ==
    (ExtractDone /\ idx = 1) =>
        /\ AllLongerThan(1) =>
              /\ ex_pc = "returned"
              /\ ex_ret = Some([n \in 1..Len(preds) |-> preds[n][2]])
        /\ preds = ScenarioPreds => ex_pc = "raised"

C8_Witness == ExtractDone /\ idx = 1 /\ preds = ScenarioPreds

\* C10: for idx in {0, 1, 2} and lists all longer than idx, the i-th result is
\* the element at position idx of the i-th list, in input order, and preds is
\* left unmodified.
C10_ElementAtIdx ==
    /\ [](  (ExtractDone /\ idx \in {0, 1, 2} /\ AllLongerThan(idx)) =>
              /\ ex_pc = "returned"
              /\ ex_ret = Some([n \in 1..Len(preds) |-> preds[n][idx + 1]]))
    /\ [][preds' = preds]_vars

C10_Witness ==
    /\ ExtractDone /\ idx = 2 /\ preds = <<<<T1, T2, T3>>, <<T3, T1, T2>>>>
    /\ ex_ret = Some(<<T3, T2>>)

----------------------------------------------------------------------------
(* Claims about get_prediction (SpecPred) *)

\* C9: get_prediction wraps the image in a batch of one, preprocesses, runs
\* the model and decodes with the requested top, in this order and each once;
\* it returns the decoder's output unchanged, leaves the configuration alone
\* and lets a failure of a step propagate.
C9_PipelineInOrder ==
    /\ [](gp_pc = "returned" =>
            /\ fault = None
            /\ Len(calls) = 4
            /\ calls[1] = Call("expand_dims", <<gp_image>>, Some(<<gp_image>>))
            /\ Len(calls[1].out[1]) = 1
            /\ calls[2] = Call(classifier.PRE_INP, <<calls[1].out[1]>>,
                               Some(PreprocessInput(<<gp_image>>)))
            /\ calls[3] = Call("predict", <<classifier.MODEL, calls[2].out[1]>>,
                               Some(ModelPredict(PreprocessInput(<<gp_image>>))))
            /\ calls[4].fn = classifier.DEC_PRED
            /\ calls[4].args = <<calls[3].out[1], gp_top>>
            /\ gp_ret # None
            /\ gp_ret = calls[4].out)
    /\ [](fault # None =>
            /\ gp_pc = "raised"
            /\ gp_ret = None
            /\ calls[Len(calls)].out = None)
    /\ [][classifier' = classifier]_vars

C9_Witness ==
    /\ gp_pc = "returned" /\ gp_top = 2
    /\ gp_ret = Some(<<<<T2, T1>>>>)

====
